---- MODULE Spec2Model ----
(***************************************************************************)
(* Model of the hotspot-analysis route handler (POST) of chainflyAgent:    *)
(* rate limiter, input validation, thermal pattern detector, vision call   *)
(* with fallback, result assembly and audit trail.                         *)
(*                                                                         *)
(* A request is an async function: the code between two awaits runs to     *)
(* completion on the single JavaScript thread, so each action below is one *)
(* such segment.  Several requests may be in flight at once (slots).       *)
(*                                                                         *)
(* Numbers: times are milliseconds; fractional numbers coming from the     *)
(* inference service are carried in tenths (hotspot fields) or as the      *)
(* exact rational num/den (confidence).                                    *)
(***************************************************************************)
EXTENDS Integers, Sequences, FiniteSets, TLC

\* ---------------------------------------------------------------- constants
MAX_FILE_SIZE == 50 * 1024 * 1024
ALLOWED_FORMATS == {"jpeg", "jpg", "png", "tiff", "bmp"}
MAX_IMAGE_DIMENSION == 8192
RATE_LIMIT == 100
RATE_WINDOW == 3600000
HOTSPOT_CAP == 50
SAMPLE_STRIDE == 20

\* ------------------------------------------------------------------- bounds
MaxWindows == 1        \* the clock runs over MaxWindows rate windows
MaxConcurrent == 2     \* request slots of the concurrent specification
MaxExtra == 1          \* the service returns up to HOTSPOT_CAP + MaxExtra hotspots
MaxExports == 3        \* export requests started in all
MaxUsers == 3          \* signups are taken while the users array is shorter than this

Slots == 1..MaxConcurrent
Keys == {"10.0.0.1"}

\* instants the clock visits: start, last millisecond and end of each window
Times == UNION {{j * RATE_WINDOW, j * RATE_WINDOW + RATE_WINDOW - 1, (j + 1) * RATE_WINDOW} :
                j \in 0..(MaxWindows - 1)}

\* ------------------------------------------------------------ number helpers
\* Math.ceil(a / b), b > 0
Ceil(a, b) == -((-a) \div b)
\* Math.round of a value given in tenths: floor(v + 0.5)
RoundTenths(t) == (t + 5) \div 10
\* optional JSON field: <<>> when absent, <<v>> when present
Absent == <<>>
Some(v) == <<v>>
\* "v || d" on an optional number: absent and 0 are falsy
OrNum(o, d) == IF o = Absent \/ o[1] = 0 THEN d ELSE o[1]
\* "v || d" on an optional string: absent and "" are falsy
OrStr(o, d) == IF o = Absent \/ o[1] = "" THEN d ELSE o[1]

\* ------------------------------------------------------------- rate limiter
NoEntry == [present |-> FALSE, count |-> 0, resetTime |-> 0]

\* the limiter with ">" for ">=": one request too many gets through
RateLimitStep_OffByOne(entry, now) ==
  IF entry.present /\ entry.resetTime > now /\ entry.count > RATE_LIMIT
  THEN [admit |-> FALSE, entry |-> entry, retryAfter |-> Ceil(entry.resetTime - now, 1000)]
  ELSE IF entry.present /\ entry.resetTime > now
       THEN [admit |-> TRUE, entry |-> [entry EXCEPT !.count = @ + 1], retryAfter |-> 0]
       ELSE [admit |-> TRUE,
             entry |-> [present |-> TRUE, count |-> 1, resetTime |-> now + RATE_WINDOW],
             retryAfter |-> 0]

\* the limiter writing back a stale count: every second increment is lost
RateLimitStep_LostUpdate(entry, now) ==
  IF entry.present /\ entry.resetTime > now /\ entry.count >= RATE_LIMIT
  THEN [admit |-> FALSE, entry |-> entry, retryAfter |-> Ceil(entry.resetTime - now, 1000)]
  ELSE IF entry.present /\ entry.resetTime > now
       THEN [admit |-> TRUE,
             entry |-> [entry EXCEPT !.count = IF @ % 2 = 0 THEN @ ELSE @ + 1],
             retryAfter |-> 0]
       ELSE [admit |-> TRUE,
             entry |-> [present |-> TRUE, count |-> 1, resetTime |-> now + RATE_WINDOW],
             retryAfter |-> 0]

\* the limiter forgetting to create the entry of a client's first request
RateLimitStep_NoCreate(entry, now) ==
  IF entry.present /\ entry.resetTime > now /\ entry.count >= RATE_LIMIT
  THEN [admit |-> FALSE, entry |-> entry, retryAfter |-> Ceil(entry.resetTime - now, 1000)]
  ELSE IF entry.present /\ entry.resetTime > now
       THEN [admit |-> TRUE, entry |-> [entry EXCEPT !.count = @ + 1], retryAfter |-> 0]
       ELSE IF entry.present
            THEN [admit |-> TRUE,
                  entry |-> [present |-> TRUE, count |-> 1, resetTime |-> now + RATE_WINDOW],
                  retryAfter |-> 0]
            ELSE [admit |-> TRUE, entry |-> entry, retryAfter |-> 0]

\* the limiter starting a new window at every admitted request
RateLimitStep_SlidingWindow(entry, now) ==
  IF entry.present /\ entry.resetTime > now /\ entry.count >= RATE_LIMIT
  THEN [admit |-> FALSE, entry |-> entry, retryAfter |-> Ceil(entry.resetTime - now, 1000)]
  ELSE IF entry.present /\ entry.resetTime > now
       THEN [admit |-> TRUE,
             entry |-> [entry EXCEPT !.count = @ + 1, !.resetTime = now + RATE_WINDOW],
             retryAfter |-> 0]
       ELSE [admit |-> TRUE,
             entry |-> [present |-> TRUE, count |-> 1, resetTime |-> now + RATE_WINDOW],
             retryAfter |-> 0]

\* the limiter pushing the window back at every rejected request
RateLimitStep_RejectExtends(entry, now) ==
  IF entry.present /\ entry.resetTime > now /\ entry.count >= RATE_LIMIT
  THEN [admit |-> FALSE, entry |-> [entry EXCEPT !.resetTime = now + RATE_WINDOW],
        retryAfter |-> Ceil(entry.resetTime - now, 1000)]
  ELSE IF entry.present /\ entry.resetTime > now
       THEN [admit |-> TRUE, entry |-> [entry EXCEPT !.count = @ + 1], retryAfter |-> 0]
       ELSE [admit |-> TRUE,
             entry |-> [present |-> TRUE, count |-> 1, resetTime |-> now + RATE_WINDOW],
             retryAfter |-> 0]

\* lines 66-87: the verdict for one request and the entry it leaves behind
RateLimitStep(entry, now) ==
  IF entry.present
  THEN IF entry.resetTime > now /\ entry.count >= RATE_LIMIT
       THEN [admit |-> FALSE, entry |-> entry,
             retryAfter |-> Ceil(entry.resetTime - now, 1000)]
       ELSE IF entry.resetTime <= now
            THEN [admit |-> TRUE,
                  entry |-> [present |-> TRUE, count |-> 1, resetTime |-> now + RATE_WINDOW],
                  retryAfter |-> 0]
            ELSE [admit |-> TRUE,
                  entry |-> [entry EXCEPT !.count = @ + 1],
                  retryAfter |-> 0]
  ELSE [admit |-> TRUE,
        entry |-> [present |-> TRUE, count |-> 1, resetTime |-> now + RATE_WINDOW],
        retryAfter |-> 0]

\* ---------------------------------------------------------------- responses
NoConf == [t |-> "absent", num |-> 0, den |-> 1]
Num(n, d) == [t |-> "num", num |-> n, den |-> d]

NoResponse ==
  [status |-> 0, error |-> "", retryAfter |-> 0, hasRequestId |-> FALSE,
   hotspots |-> <<>>, severity |-> "", confidence |-> NoConf,
   totalHotspots |-> 0, affectedArea |-> 0, message |-> "", metaError |-> "",
   imageType |-> ""]

MSG_RATE == "Too many requests. Please try again later."
MSG_NOFILE == "Please provide a valid image file"
MSG_SIZE == "File size exceeds maximum allowed size of 50MB"
MSG_FORMAT == "Invalid file format. Allowed formats: jpeg, jpg, png, tiff, bmp"
MSG_CORRUPT == "Invalid or corrupted image file. Please upload a valid image."
MSG_TIMEOUT == "Request timed out. Please try with a smaller image."
MSG_GENERIC == "An error occurred during analysis. Please try again."
MSG_NOT_THERMAL == "Image does not appear to be a thermal image"
MSG_UNAVAILABLE == "Advanced analysis temporarily unavailable. Please try again."

\* lines 70-77
RateLimitedResponse(retryAfter) ==
  [NoResponse EXCEPT !.status = 429, !.error = MSG_RATE, !.retryAfter = retryAfter,
                     !.hasRequestId = TRUE]
\* lines 98-101, 107-113, 120-126, 172-178
ValidationResponse(msg) ==
  [NoResponse EXCEPT !.status = 400, !.error = msg, !.hasRequestId = TRUE]
\* lines 504-511
ErrorResponse(msg) ==
  [NoResponse EXCEPT !.status = 500, !.error = msg, !.hasRequestId = TRUE]
\* lines 298-308
ShortCircuitResponse ==
  [NoResponse EXCEPT !.status = 200, !.severity = "none", !.confidence = Num(95, 100),
                     !.message = MSG_NOT_THERMAL]
\* lines 428-439
FallbackResponse ==
  [NoResponse EXCEPT !.status = 200, !.severity = "unknown", !.confidence = Num(5, 10),
                     !.message = MSG_UNAVAILABLE, !.metaError = "vision_api_error"]

\* --------------------------------------------------------- input validation
\* String.prototype.toLowerCase on the extensions the model submits
ToLowerCase(s) == CASE s = "JPG" -> "jpg" [] s = "Png" -> "png" [] OTHER -> s

\* line 117: file.name.split('.').pop()?.toLowerCase(); a name is its dot-separated parts
FileExtension(name) == ToLowerCase(name[Len(name)])

\* the size check with ">=" for ">"
ValidateFile_SizeInclusive(file) ==
  IF ~file.present THEN MSG_NOFILE
  ELSE IF file.size >= MAX_FILE_SIZE THEN MSG_SIZE
  ELSE IF FileExtension(file.name) = "" \/ FileExtension(file.name) \notin ALLOWED_FORMATS
       THEN MSG_FORMAT
  ELSE ""

\* the extension check moved in front of the size check
ValidateFile_FormatFirst(file) ==
  IF ~file.present THEN MSG_NOFILE
  ELSE IF FileExtension(file.name) = "" \/ FileExtension(file.name) \notin ALLOWED_FORMATS
       THEN MSG_FORMAT
  ELSE IF file.size > MAX_FILE_SIZE THEN MSG_SIZE
  ELSE ""

\* lines 96-127: "" when the file passes, else the message of the first failing check
ValidateFile(file) ==
  IF ~file.present THEN MSG_NOFILE
  ELSE IF file.size > MAX_FILE_SIZE THEN MSG_SIZE
  ELSE IF FileExtension(file.name) = "" \/ FileExtension(file.name) \notin ALLOWED_FORMATS
       THEN MSG_FORMAT
  ELSE ""

\* lines 97, 106, 119: what the failing check writes to auditLog.details.error
ValidationAuditError(msg) ==
  CASE msg = MSG_NOFILE -> "Invalid file upload"
    [] msg = MSG_SIZE -> "File too large"
    [] OTHER -> "Invalid file format"

\* lines 151-160: the message of the error thrown inside the try, "" when none
MetadataError(img) ==
  IF ~img.decodable THEN "Input buffer contains unsupported image format"
  ELSE IF img.width = 0 \/ img.height = 0 THEN "Invalid image dimensions"
  ELSE IF img.width > MAX_IMAGE_DIMENSION \/ img.height > MAX_IMAGE_DIMENSION
       THEN "Image dimensions exceed maximum allowed size of 8192px"
  ELSE ""

\* lines 151-160: TRUE when sharp decodes the header and the dimensions pass
MetadataOk(img) ==
  /\ img.decodable
  /\ img.width # 0 /\ img.height # 0
  /\ ~(img.width > MAX_IMAGE_DIMENSION \/ img.height > MAX_IMAGE_DIMENSION)

\* -------------------------------------------------- thermal pattern detector
\* the grey level of the one-coloured pictures
GreyLevel ==
  [k \in {"g15", "g31", "g32", "g63", "g64", "g100", "g127", "g160", "g191", "g192",
          "g200", "g223", "g224", "g240", "g254", "white"} |->
     CASE k = "g15" -> 15 [] k = "g31" -> 31 [] k = "g32" -> 32 [] k = "g63" -> 63
       [] k = "g64" -> 64 [] k = "g100" -> 100 [] k = "g127" -> 127 [] k = "g160" -> 160
       [] k = "g191" -> 191 [] k = "g192" -> 192 [] k = "g200" -> 200 [] k = "g223" -> 223
       [] k = "g224" -> 224 [] k = "g240" -> 240 [] k = "g254" -> 254 [] OTHER -> 255]

\* the decoded raster: the RGB triple at (x, y) of each picture the model submits
Pixel(kind, x, y) ==
  CASE kind = "black" -> <<0, 0, 0>>
    [] kind = "gray" -> <<128, 128, 128>>
    [] kind \in DOMAIN GreyLevel -> <<GreyLevel[kind], GreyLevel[kind], GreyLevel[kind]>>
    [] kind = "grays" -> <<((x \div SAMPLE_STRIDE) % 8) * 32, ((x \div SAMPLE_STRIDE) % 8) * 32,
                           ((x \div SAMPLE_STRIDE) % 8) * 32>>
    [] kind = "photo" -> <<((x \div SAMPLE_STRIDE) % 8) * 32, 64, 64>>
    [] kind = "iron" -> <<((x \div SAMPLE_STRIDE) % 8) * 32, ((y \div SAMPLE_STRIDE) % 8) * 32, 0>>
    [] OTHER -> <<(x * 3) % 256, (y * 5) % 256, ((x + y) * 7) % 256>>

\* lines 212-213: the stride-20 grid
Samples(w, h) == {<<SAMPLE_STRIDE * i, SAMPLE_STRIDE * j>> :
                    i \in 0..((w - 1) \div SAMPLE_STRIDE), j \in 0..((h - 1) \div SAMPLE_STRIDE)}

\* line 220: the histogram key of a pixel
ColorKey(p) == <<p[1] \div 32, p[2] \div 32, p[3] \div 32>>

Abs(n) == IF n < 0 THEN -n ELSE n

\* lines 225-226, times 3: |r-gray| + |g-gray| + |b-gray| with gray = (r+g+b)/3
PixelVariance3(p) ==
  LET s == p[1] + p[2] + p[3]
  IN Abs(3 * p[1] - s) + Abs(3 * p[2] - s) + Abs(3 * p[3] - s)

\* the sum of f[lo..hi]
RECURSIVE SumRange(_, _, _)
SumRange(f, lo, hi) ==
  IF lo > hi THEN 0
  ELSE IF lo = hi THEN f[lo]
  ELSE LET mid == (lo + hi) \div 2
       IN SumRange(f, lo, mid) + SumRange(f, mid + 1, hi)

\* lines 212-228: colorVariance accumulated over the grid (times 3), row by row
SumVariance3(kind, w, h) ==
  LET cols == ((w - 1) \div SAMPLE_STRIDE) + 1
      rows == ((h - 1) \div SAMPLE_STRIDE) + 1
      f == [n \in 0..(rows * cols - 1) |->
              PixelVariance3(Pixel(kind, SAMPLE_STRIDE * (n % cols), SAMPLE_STRIDE * (n \div cols)))]
  IN SumRange(f, 0, rows * cols - 1)

\* lines 207-232, 247-258: the statistics of one decoded image
\* (colorVariance3 is three times the code's colorVariance)
ImageStats(img) ==
  LET cs == Samples(img.width, img.height)
      keys == {ColorKey(Pixel(img.kind, c[1], c[2])) : c \in cs}
  IN [uniqueColors |-> Cardinality(keys),
      totalPixels |-> Cardinality(cs),
      colorVariance3 |-> SumVariance3(img.kind, img.width, img.height),
      redKeys |-> Cardinality({k \in keys : k[1] > k[2] /\ k[1] > k[3]}),
      blueKeys |-> Cardinality({k \in keys : k[3] > k[1] /\ k[3] > k[2]})]

\* lines 247-258: the bias fractions as num/den; 0 when colorVariance is 0
RedBias(st) ==
  IF st.colorVariance3 > 0 THEN [num |-> st.redKeys, den |-> st.uniqueColors]
  ELSE [num |-> 0, den |-> 1]
BlueBias(st) ==
  IF st.colorVariance3 > 0 THEN [num |-> st.blueKeys, den |-> st.uniqueColors]
  ELSE [num |-> 0, den |-> 1]

\* the near-grayscale branch testing for many colours instead of few
Branches_GrayscaleFlipped(st) ==
  [iron |-> FALSE, rainbow |-> FALSE,
   grayscale |-> st.uniqueColors > 50 /\ st.colorVariance3 < 3 * 10 * st.totalPixels,
   contrast |-> FALSE]

\* the branches with the thresholds themselves counted in
Branches_Inclusive(st) ==
  LET hasHighColorVariance == st.colorVariance3 >= 3 * 50 * st.totalPixels
      hasModerateColors == st.uniqueColors >= 50 /\ st.uniqueColors <= 300
      hasColorGradient == st.uniqueColors >= 100 /\ st.colorVariance3 >= 3 * 100 * st.totalPixels
      hasThermalBias == \/ 10 * (IF st.colorVariance3 > 0 THEN st.redKeys ELSE 0) >= 3 * st.uniqueColors
                        \/ 10 * (IF st.colorVariance3 > 0 THEN st.blueKeys ELSE 0) >= 3 * st.uniqueColors
  IN [iron |-> hasThermalBias /\ hasModerateColors,
      rainbow |-> hasColorGradient /\ hasHighColorVariance,
      grayscale |-> st.uniqueColors <= 50 /\ st.colorVariance3 <= 3 * 10 * st.totalPixels,
      contrast |-> st.colorVariance3 >= 3 * 150 * st.totalPixels /\ st.uniqueColors >= 100]

\* the branches with a high-contrast branch that asks for more than 50 colours
Branches_ContrastLoose(st) ==
  LET hasHighColorVariance == st.colorVariance3 > 3 * 50 * st.totalPixels
      hasModerateColors == st.uniqueColors > 50 /\ st.uniqueColors < 300
      hasColorGradient == st.uniqueColors > 100 /\ st.colorVariance3 > 3 * 100 * st.totalPixels
      hasThermalBias == \/ 10 * (IF st.colorVariance3 > 0 THEN st.redKeys ELSE 0) > 3 * st.uniqueColors
                        \/ 10 * (IF st.colorVariance3 > 0 THEN st.blueKeys ELSE 0) > 3 * st.uniqueColors
  IN [iron |-> hasThermalBias /\ hasModerateColors,
      rainbow |-> hasColorGradient /\ hasHighColorVariance,
      grayscale |-> st.uniqueColors < 50 /\ st.colorVariance3 < 3 * 10 * st.totalPixels,
      contrast |-> st.colorVariance3 > 3 * 150 * st.totalPixels /\ st.uniqueColors > 50]

\* lines 261-271: the four branches of the verdict; avgColorVariance > t is
\* colorVariance3 > 3 * t * totalPixels, a bias > 0.3 is 10 * num > 3 * den
Branches(st) ==
  LET hasHighColorVariance == st.colorVariance3 > 3 * 50 * st.totalPixels
      hasModerateColors == st.uniqueColors > 50 /\ st.uniqueColors < 300
      hasColorGradient == st.uniqueColors > 100 /\ st.colorVariance3 > 3 * 100 * st.totalPixels
      hasThermalBias == \/ 10 * RedBias(st).num > 3 * RedBias(st).den
                        \/ 10 * BlueBias(st).num > 3 * BlueBias(st).den
  IN [iron |-> hasThermalBias /\ hasModerateColors,
      rainbow |-> hasColorGradient /\ hasHighColorVariance,
      grayscale |-> st.uniqueColors < 50 /\ st.colorVariance3 < 3 * 10 * st.totalPixels,
      contrast |-> st.colorVariance3 > 3 * 150 * st.totalPixels /\ st.uniqueColors > 100]

\* lines 267-272: the heuristic verdict
ThermalColorPattern(st) ==
  \/ Branches(st).iron
  \/ Branches(st).rainbow
  \/ Branches(st).grayscale
  \/ Branches(st).contrast

\* the classification without the demoMode override
IsThermalImage_NoDemo(demoMode, imageType, thermalColorPattern) ==
  \/ (imageType = "thermal" /\ thermalColorPattern)
  \/ (imageType # "visual" /\ thermalColorPattern)

\* the classification trusting the heuristic also for declared visual images
IsThermalImage_IgnoreVisual(demoMode, imageType, thermalColorPattern) ==
  demoMode \/ thermalColorPattern

\* lines 277-279
IsThermalImage(demoMode, imageType, thermalColorPattern) ==
  \/ demoMode
  \/ (imageType = "thermal" /\ thermalColorPattern)
  \/ (imageType # "visual" /\ thermalColorPattern)

\* ------------------------------------------------ hotspot extraction pipeline
\* the mapping that defaults absent fields only: a radius or intensity of 0 stays
MapHotspot_KeepZero(h) ==
  [x |-> RoundTenths(IF h.x = Absent THEN 0 ELSE h.x[1]),
   y |-> RoundTenths(IF h.y = Absent THEN 0 ELSE h.y[1]),
   radius |-> RoundTenths(IF h.radius = Absent THEN 200 ELSE h.radius[1]),
   intensity |-> RoundTenths(IF h.intensity = Absent THEN 500 ELSE h.intensity[1]),
   area |-> IF h.area = Absent THEN 10000 ELSE h.area[1],
   description |-> IF h.description = Absent THEN "Thermal anomaly detected"
                   ELSE h.description[1]]

\* lines 388-402: one hotspot of the service (numbers in tenths) to one of the result
\* (x, y, radius, intensity integers; area stays in tenths)
MapHotspot(h) ==
  [x |-> RoundTenths(OrNum(h.x, 0)),
   y |-> RoundTenths(OrNum(h.y, 0)),
   radius |-> RoundTenths(OrNum(h.radius, 200)),
   intensity |-> RoundTenths(OrNum(h.intensity, 500)),
   area |-> OrNum(h.area, 10000),
   description |-> OrStr(h.description, "Thermal anomaly detected")]

\* lines 385-388: TRUE when parsing and mapping the reply throws
ReplyThrows(reply) ==
  \/ reply.kind # "json"
  \/ reply.hotspots.t = "notArray"
  \/ \E i \in 1..Len(reply.hotspots.items) : reply.hotspots.items[i].isNull

\* lines 388-402
MappedHotspots(reply) ==
  IF reply.hotspots.t = "absent" THEN <<>>
  ELSE [i \in 1..Len(reply.hotspots.items) |-> MapHotspot(reply.hotspots.items[i])]

\* line 411: visionResult.confidence || 0.85
AiConfidence(c) ==
  IF c.t = "absent" \/ (c.t = "num" /\ c.num = 0) THEN Num(85, 100) ELSE c

\* the normalization without the division
NormalizedConfidence_NoScale(c) == c

\* lines 466-473: the value written to finalResponse.confidence
NormalizedConfidence(c) ==
  IF c.t = "num" /\ c.num > c.den THEN Num(c.num, c.den * 100) ELSE c

\* line 444: h.area || Math.PI * h.radius * h.radius, in tenths
AreaTerm(h) == IF h.area # 0 THEN h.area ELSE (31416 * h.radius * h.radius) \div 1000

RECURSIVE SumArea(_)
SumArea(hs) == IF hs = <<>> THEN 0 ELSE AreaTerm(Head(hs)) + SumArea(Tail(hs))

\* the cap off by one
Slice_OffByOne(hs) == SubSeq(hs, 1, IF Len(hs) < HOTSPOT_CAP + 1 THEN Len(hs) ELSE HOTSPOT_CAP + 1)

\* line 450: hotspots.slice(0, 50)
Slice(hs) == SubSeq(hs, 1, IF Len(hs) < HOTSPOT_CAP THEN Len(hs) ELSE HOTSPOT_CAP)

\* the result with its totals taken over the returned hotspots only
FinalResponse_OverReturned(reply, isThermalImage) ==
  LET hotspots == MappedHotspots(reply)
      aiConfidence == AiConfidence(reply.confidence)
      base == IF isThermalImage THEN Num(85, 100) ELSE Num(0, 1)
  IN [NoResponse EXCEPT
        !.status = 200,
        !.hasRequestId = TRUE,
        !.severity = OrStr(reply.severity, "medium"),
        !.hotspots = Slice(hotspots),
        !.confidence = IF aiConfidence.t = "absent" THEN base
                       ELSE NormalizedConfidence(aiConfidence),
        !.totalHotspots = Len(Slice(hotspots)),
        !.affectedArea = (SumArea(Slice(hotspots)) + 500) \div 1000,
        !.imageType = IF isThermalImage THEN "thermal" ELSE "visual"]

\* lines 443-474: the assembled result of a reply that parsed
FinalResponse(reply, isThermalImage) ==
  LET hotspots == MappedHotspots(reply)
      aiConfidence == AiConfidence(reply.confidence)
      base == IF isThermalImage THEN Num(85, 100) ELSE Num(0, 1)
  IN [NoResponse EXCEPT
        !.status = 200,
        !.hasRequestId = TRUE,
        !.severity = OrStr(reply.severity, "medium"),
        !.hotspots = Slice(hotspots),
        !.confidence = IF aiConfidence.t = "absent" THEN base
                       ELSE NormalizedConfidence(aiConfidence),
        !.totalHotspots = Len(hotspots),
        !.affectedArea = (SumArea(hotspots) + 500) \div 1000,
        !.imageType = IF isThermalImage THEN "thermal" ELSE "visual"]

\* lines 492, 500-502: errorMessage.includes('timeout')
IncludesTimeout(msg) == msg \in {"File processing timeout"}

\* the client message without the timeout case
ClientError_Generic(msg) == MSG_GENERIC

\* the client message echoing the internal error
ClientError_Leak(msg) == msg

\* lines 499-502: the sanitized message of the 500 response
ClientError(msg) ==
  IF IncludesTimeout(msg) THEN MSG_TIMEOUT ELSE MSG_GENERIC

\* ------------------------------------------------------------------- inputs
\* what the runtime or sharp may throw inside the handler
InternalErrors == {"Failed to parse body as FormData.",
                   "Input buffer contains unsupported image format"}

Files ==
  {[present |-> FALSE, size |-> 0, name |-> <<"">>]} \cup
  [present : {TRUE}, size : {MAX_FILE_SIZE, MAX_FILE_SIZE + 1},
   name : {<<"scan", "jpg">>, <<"scan", "JPG">>, <<"scan", "gif">>, <<"scan">>}]

\* the imageType and demoMode form fields
ImageTypeFields == {Absent, Some("thermal"), Some("visual"), Some("auto")}
DemoModeFields == {Absent, Some("true"), Some("1")}

Images ==
  {[decodable |-> FALSE, width |-> 0, height |-> 0, kind |-> "black"],
   [decodable |-> TRUE, width |-> 0, height |-> 40, kind |-> "black"],
   [decodable |-> TRUE, width |-> MAX_IMAGE_DIMENSION + 1, height |-> 40, kind |-> "gray"],
   [decodable |-> TRUE, width |-> MAX_IMAGE_DIMENSION, height |-> 1, kind |-> "gray"],
   [decodable |-> TRUE, width |-> 40, height |-> 40, kind |-> "black"],
   [decodable |-> TRUE, width |-> 160, height |-> 20, kind |-> "photo"],
   [decodable |-> TRUE, width |-> 141, height |-> 141, kind |-> "iron"]}

NoImage == [decodable |-> FALSE, width |-> 0, height |-> 0, kind |-> ""]

\* the heuristic verdict of every image that passes the dimension checks
Verdicts == [img \in {i \in Images : MetadataOk(i)} |-> ThermalColorPattern(ImageStats(img))]

\* the i-th hotspot of a service reply; from the 34th on y is negative and the
\* intensity above 100
Item(i) ==
  [isNull |-> FALSE,
   x |-> IF i % 7 = 0 THEN Absent ELSE Some(10 * i + 4),
   y |-> IF i % 11 = 0 THEN Absent ELSE Some(10 * (100 - 3 * i)),
   radius |-> IF i % 2 = 0 THEN Absent ELSE IF i % 5 = 0 THEN Some(0) ELSE Some(105),
   intensity |-> IF i % 3 = 0 THEN Some(0) ELSE IF i % 7 = 0 THEN Absent ELSE Some(30 * i + 5),
   area |-> IF i % 4 = 0 THEN Absent ELSE Some(10000 * i),
   description |-> IF i % 5 = 0 THEN Absent ELSE Some("Bypass diode activation")]
NullItem == [Item(1) EXCEPT !.isNull = TRUE]

HotspotCounts == {0, 1} \cup (HOTSPOT_CAP..(HOTSPOT_CAP + MaxExtra))
Confidences == {NoConf, Num(0, 1), Num(4, 10), Num(1, 1), Num(60, 1), Num(85, 1), Num(250, 1),
                Num(-1, 2), [t |-> "str", num |-> 0, den |-> 1]}
Severities == {Absent, Some("high"), Some("catastrophic")}

JsonReply(hs, sev, conf) ==
  [kind |-> "json", hotspots |-> hs, severity |-> sev, confidence |-> conf]

\* replies whose parsing and mapping completes
GoodReplies ==
  {JsonReply([t |-> "array", items |-> [i \in 1..n |-> Item(i)]], sev, conf) :
     n \in HotspotCounts, sev \in Severities, conf \in Confidences}
  \cup {JsonReply([t |-> "absent", items |-> <<>>], Absent, NoConf)}

\* replies on which line 385 or the mapping throws
BadReplies ==
  {[JsonReply([t |-> "absent", items |-> <<>>], Absent, NoConf) EXCEPT !.kind = k] :
     k \in {"noChoices", "badJson", "jsonNull"}}
  \cup {JsonReply([t |-> "notArray", items |-> <<>>], Absent, Num(9, 10)),
        JsonReply([t |-> "array", items |-> <<Item(1), NullItem>>], Some("high"), Num(9, 10))}

Replies == GoodReplies \cup BadReplies

\* the assembled result of every reply that parses, per classification
Assembled == [reply \in {x \in Replies : ~ReplyThrows(x)}, thermal \in BOOLEAN |->
                FinalResponse(reply, thermal)]

\* -------------------------------------------------------------------- state
VARIABLES
  clock,      \* Date.now()
  store,      \* rateLimitStore: client key -> entry
  admitted,   \* history: requests admitted per key since its entry was (re)created
  pc,         \* per slot: the await the request is suspended at, "idle" or "done"
  req,        \* per slot: the locals the request still reads after its current await
  resp,       \* per slot: the response returned
  responses,  \* per slot: number of responses returned for the request
  audit,      \* per slot: the auditLog record and the number of [AUDIT] lines logged
  detector,   \* the thermal pattern detector run on its own: a decoded image or its
              \* statistics, and the result
  exportsFile, \* data/exports.json: whether it parses, and the array it holds
  exporter,   \* per slot: the export request's await, its record and its local array
  exported,   \* history: export requests started, and the records of those that completed
  users,      \* the in-memory users array of src/lib/auth.ts
  signup      \* per slot: the signup request's await, its email and its response

\* the state of the other routes, which the hotspot analysis does not touch
aside == <<detector, exportsFile, exporter, exported, users, signup>>

vars == <<clock, store, admitted, pc, req, resp, responses, audit, detector,
          exportsFile, exporter, exported, users, signup>>

NoDetector == [image |-> NoImage, stats |-> Absent, out |-> Absent]

\* data/exports.json does not exist until the first export writes it
NoExportsFile == [parseable |-> FALSE, records |-> <<>>]
NoExportRecord == [reportId |-> 0, type |-> ""]
NoExport == [pc |-> "idle", record |-> NoExportRecord, exports |-> <<>>, status |-> 0]

\* src/lib/auth.ts lines 7-14: the users array at module load
InitialUsers == <<[id |-> 1, email |-> "admin@chainfly.com"]>>
NoSignup == [pc |-> "idle", email |-> "", passwordIsString |-> TRUE, status |-> 0, error |-> ""]

\* vision, replyCount and replyConfidence record what the service answered:
\* vision is "none", "rejected", "bad" (a reply of BadReplies) or "good".
\* counted records that the limiter wrote the client's entry for this request,
\* file the uploaded file up to the decoding of its header, timedOut that the
\* file read or the vision call ended by a timeout.
NoRequest ==
  [key |-> "", counted |-> FALSE, file |-> Absent, imageType |-> "", demoMode |-> FALSE,
   image |-> NoImage,
   classified |-> FALSE, thermalColorPattern |-> FALSE, isThermalImage |-> FALSE,
   visionCalls |-> 0, vision |-> "none", timedOut |-> FALSE,
   replyCount |-> 0, replyConfidence |-> NoConf]

\* an audit record that starts out as a success
NewAudit_Success == [status |-> "success", error |-> "", detail |-> "", results |-> FALSE,
                     processingTime |-> FALSE, emitted |-> 0]

\* lines 51-58; detail is details.details of line 170
NewAudit == [status |-> "failure", error |-> "", detail |-> "", results |-> FALSE,
             processingTime |-> FALSE, emitted |-> 0]

Init ==
  /\ clock = 0
  /\ store = [k \in Keys |-> NoEntry]
  /\ admitted = [k \in Keys |-> 0]
  /\ pc = [r \in Slots |-> "idle"]
  /\ req = [r \in Slots |-> NoRequest]
  /\ resp = [r \in Slots |-> NoResponse]
  /\ responses = [r \in Slots |-> 0]
  /\ audit = [r \in Slots |-> NewAudit]
  /\ detector = NoDetector
  /\ exportsFile = NoExportsFile
  /\ exporter = [r \in Slots |-> NoExport]
  /\ exported = [started |-> 0, completed |-> {}]
  /\ users = InitialUsers
  /\ signup = [r \in Slots |-> NoSignup]

\* time passes
Tick ==
  /\ \E t \in Times : t > clock /\ clock' = t
  /\ UNCHANGED <<aside, store, admitted, pc, req, resp, responses, audit>>

\* the handler returns response b from slot r
Return(r, b) ==
  /\ pc' = [pc EXCEPT ![r] = "done"]
  /\ resp' = [resp EXCEPT ![r] = b]
  /\ responses' = [responses EXCEPT ![r] = @ + 1]

\* lines 490-511: the outer catch
OuterCatch(r, msg) ==
  /\ Return(r, ErrorResponse(ClientError(msg)))
  /\ audit' = [audit EXCEPT ![r].error = msg, ![r].processingTime = TRUE,
                            ![r].emitted = @ + 1]

\* lines 45-90: a request of client k arrives and runs up to "await request.formData()"
RateLimit(r) ==
  /\ pc[r] = "idle"
  /\ \E k \in Keys :
       LET v == RateLimitStep(store[k], clock)
           fresh == ~store[k].present \/ store[k].resetTime <= clock
       IN /\ store' = [store EXCEPT ![k] = v.entry]
          /\ req' = [req EXCEPT ![r] = [NoRequest EXCEPT !.key = k,
                                                          !.counted = (v.entry # store[k])]]
          /\ IF v.admit
             THEN /\ pc' = [pc EXCEPT ![r] = "formData"]
                  /\ resp' = [resp EXCEPT ![r] = NoResponse]
                  /\ responses' = [responses EXCEPT ![r] = 0]
                  /\ audit' = [audit EXCEPT ![r] = NewAudit]
                  /\ admitted' = [admitted EXCEPT ![k] = IF fresh THEN 1 ELSE @ + 1]
             ELSE /\ pc' = [pc EXCEPT ![r] = "done"]
                  /\ resp' = [resp EXCEPT ![r] = RateLimitedResponse(v.retryAfter)]
                  /\ responses' = [responses EXCEPT ![r] = 1]
                  /\ audit' = [audit EXCEPT ![r] = [NewAudit EXCEPT !.error = "Rate limit exceeded"]]
                  /\ UNCHANGED admitted
  /\ UNCHANGED <<aside, clock>>

\* line 90 rejects: the body is not form data
FormDataRejects(r) ==
  /\ pc[r] = "formData"
  /\ \E msg \in InternalErrors : OuterCatch(r, msg)
  /\ UNCHANGED <<aside, clock, store, admitted, req>>

\* lines 90-139: the form is parsed and the file validated, up to the file read
Validate(r, files) ==
  /\ pc[r] = "formData"
  /\ \E file \in files, itf \in ImageTypeFields, dmf \in DemoModeFields :
       LET msg == ValidateFile(file)
       IN IF msg # ""
          THEN /\ Return(r, ValidationResponse(msg))
               /\ audit' = [audit EXCEPT ![r].error = ValidationAuditError(msg)]
               /\ req' = [req EXCEPT ![r].file = Some(file)]
          ELSE /\ pc' = [pc EXCEPT ![r] = "readFile"]
               /\ req' = [req EXCEPT ![r].file = Some(file),
                                     ![r].imageType = OrStr(itf, "auto"),
                                     ![r].demoMode = (dmf = Some("true"))]
               /\ UNCHANGED <<resp, responses, audit>>
  /\ UNCHANGED <<aside, clock, store, admitted>>

\* lines 139-151: file.arrayBuffer() wins the race
FileRead(r) ==
  /\ pc[r] = "readFile"
  /\ pc' = [pc EXCEPT ![r] = "metadata"]
  /\ UNCHANGED <<aside, clock, store, admitted, req, resp, responses, audit>>

\* lines 141-143: the REQUEST_TIMEOUT timer wins the race
FileReadTimeout(r) ==
  /\ pc[r] = "readFile"
  /\ OuterCatch(r, "File processing timeout")
  /\ req' = [req EXCEPT ![r].timedOut = TRUE]
  /\ UNCHANGED <<aside, clock, store, admitted>>

\* lines 149-187: sharp reads the header of the uploaded image; dimension checks
ImageMetadata(r) ==
  /\ pc[r] = "metadata"
  /\ \E img \in Images :
       IF MetadataOk(img)
       THEN /\ pc' = [pc EXCEPT ![r] = "raw"]
            /\ req' = [req EXCEPT ![r].image = img, ![r].file = Absent]
            /\ UNCHANGED <<resp, responses, audit>>
       ELSE /\ Return(r, ValidationResponse(MSG_CORRUPT))
            /\ audit' = [audit EXCEPT ![r].error = "Invalid image file",
                                      ![r].detail = MetadataError(img)]
            /\ UNCHANGED req
  /\ UNCHANGED <<aside, clock, store, admitted>>

\* line 185 rejects: the pixel data does not decode
RawRejects(r) ==
  /\ pc[r] = "raw"
  /\ \E msg \in InternalErrors : OuterCatch(r, msg)
  /\ req' = [req EXCEPT ![r].image = NoImage]
  /\ UNCHANGED <<aside, clock, store, admitted>>

\* the classification without the short-circuit: the service is called for every image
Classify_NoShortCircuit(r) ==
  /\ pc[r] = "raw"
  /\ LET tcp == Verdicts[req[r].image]
         thermal == IsThermalImage(req[r].demoMode, req[r].imageType, tcp)
     IN req' = [req EXCEPT ![r].image = NoImage, ![r].classified = TRUE,
                           ![r].thermalColorPattern = tcp,
                           ![r].isThermalImage = thermal,
                           ![r].visionCalls = 1]
  /\ pc' = [pc EXCEPT ![r] = "vision"]
  /\ UNCHANGED <<aside, clock, store, admitted, audit, resp, responses>>

\* lines 185-329: pixel statistics, classification, short-circuit or the vision call
Classify(r) ==
  /\ pc[r] = "raw"
  /\ LET tcp == Verdicts[req[r].image]
         thermal == IsThermalImage(req[r].demoMode, req[r].imageType, tcp)
     IN /\ req' = [req EXCEPT ![r].image = NoImage, ![r].classified = TRUE,
                              ![r].thermalColorPattern = tcp,
                              ![r].isThermalImage = thermal,
                              ![r].visionCalls = IF thermal THEN 1 ELSE 0]
        /\ IF thermal
           THEN /\ pc' = [pc EXCEPT ![r] = "vision"]
                /\ UNCHANGED <<resp, responses>>
           ELSE Return(r, ShortCircuitResponse)
  /\ UNCHANGED <<aside, clock, store, admitted, audit>>

\* the inner catch handing the error on to the outer one
Fallback_Rethrow(r) == OuterCatch(r, "Connection error.")

\* lines 423-440: the fallback of the inner catch
Fallback(r) ==
  /\ Return(r, FallbackResponse)
  /\ UNCHANGED audit

\* lines 329-488: the vision call resolves; parse, map, assemble, audit, respond
VisionResolves(r) ==
  /\ pc[r] = "vision"
  /\ \E reply \in Replies :
       /\ req' = [req EXCEPT ![r].imageType = "", ![r].demoMode = FALSE,
                              ![r].thermalColorPattern = FALSE,
                              ![r].vision = IF reply \in BadReplies THEN "bad" ELSE "good",
                              ![r].replyCount = Len(reply.hotspots.items),
                              ![r].replyConfidence = reply.confidence]
       /\ IF ReplyThrows(reply)
          THEN Fallback(r)
          ELSE /\ Return(r, Assembled[reply, req[r].isThermalImage])
               /\ audit' = [audit EXCEPT ![r].status = "success", ![r].processingTime = TRUE,
                                         ![r].results = TRUE, ![r].emitted = @ + 1]
  /\ UNCHANGED <<aside, clock, store, admitted>>

\* line 329 rejects: exception, timeout or non-2xx of the service
VisionRejects(r) ==
  /\ pc[r] = "vision"
  /\ \E timeout \in BOOLEAN :
       req' = [req EXCEPT ![r].imageType = "", ![r].demoMode = FALSE,
                          ![r].thermalColorPattern = FALSE, ![r].vision = "rejected",
                          ![r].timedOut = timeout]
  /\ Fallback(r)
  /\ UNCHANGED <<aside, clock, store, admitted>>

\* the invocation is over: the response has been sent and the locals are gone
Deliver(r) ==
  /\ pc[r] = "done"
  /\ pc' = [pc EXCEPT ![r] = "idle"]
  /\ req' = [req EXCEPT ![r] = NoRequest]
  /\ resp' = [resp EXCEPT ![r] = NoResponse]
  /\ responses' = [responses EXCEPT ![r] = 0]
  /\ audit' = [audit EXCEPT ![r] = NewAudit]
  /\ UNCHANGED <<aside, clock, store, admitted>>

\* one request at a time, every input
Handler(r) ==
  \/ RateLimit(r)
  \/ FormDataRejects(r)
  \/ Validate(r, Files)
  \/ FileRead(r)
  \/ FileReadTimeout(r)
  \/ ImageMetadata(r)
  \/ RawRejects(r)
  \/ Classify(r)
  \/ VisionResolves(r)
  \/ VisionRejects(r)
  \/ Deliver(r)

Next == Tick \/ Handler(1)

Spec == Init /\ [][Next]_vars

\* the handler's own steps are taken once enabled: the runtime parses the body,
\* the file read races a timer, sharp computes locally.  Nothing in the handler
\* bounds the vision call, and clients send new requests as they please.
Fairness ==
  /\ WF_vars(FormDataRejects(1) \/ Validate(1, Files))
  /\ WF_vars(FileRead(1) \/ FileReadTimeout(1))
  /\ WF_vars(ImageMetadata(1))
  /\ WF_vars(RawRejects(1) \/ Classify(1))

FairSpec == Spec /\ Fairness

\* ------------------------------------------------- the detector on its own
\* decoded images of one grey level each, in three sizes
FlatImages ==
  {[decodable |-> TRUE, width |-> d, height |-> d, kind |-> k] :
     d \in {1, 21, 40},
     k \in {"black", "gray", "g15", "g31", "g32", "g63", "g64", "g100", "g127", "g160",
            "g191", "g192", "g200", "g223", "g224", "g240", "g254", "white"}}

DetectorImages ==
  FlatImages \cup {i \in Images : MetadataOk(i)}
    \cup {[decodable |-> TRUE, width |-> 160, height |-> 20, kind |-> "grays"]}

\* the statistics of sampled images at and next to the thresholds of the
\* verdict: GridPixels samples, colour counts around 50, 100 and 300, an
\* average variance around 10, 50, 100 and 150, bias fractions around 0.3.
\* A variance of 0 means grey pixels only: at most 8 colours, none dominant.
GridPixels == 600
FeatureStats ==
  {st \in [uniqueColors : {1, 49, 50, 51, 100, 101, 299, 300, 301},
           totalPixels : {GridPixels},
           colorVariance3 : {0} \cup UNION {{3 * t * GridPixels - 1, 3 * t * GridPixels,
                                             3 * t * GridPixels + 1} : t \in {10, 50, 100, 150}},
           redKeys : {0, 15, 16, 30, 31, 90, 91},
           blueKeys : {0, 15, 16, 30, 31, 90, 91}] :
     /\ st.redKeys + st.blueKeys <= st.uniqueColors
     /\ st.colorVariance3 = 0 => (st.uniqueColors <= 8 /\ st.redKeys = 0 /\ st.blueKeys = 0)}

InitDetect ==
  /\ clock = 0
  /\ store = [k \in Keys |-> NoEntry]
  /\ admitted = [k \in Keys |-> 0]
  /\ pc = [r \in Slots |-> "idle"]
  /\ req = [r \in Slots |-> NoRequest]
  /\ resp = [r \in Slots |-> NoResponse]
  /\ responses = [r \in Slots |-> 0]
  /\ audit = [r \in Slots |-> NewAudit]
  /\ detector \in {[image |-> img, stats |-> Absent, out |-> Absent] : img \in DetectorImages}
                  \cup {[image |-> NoImage, stats |-> Some(st), out |-> Absent] :
                          st \in FeatureStats}
  /\ exportsFile = NoExportsFile
  /\ exporter = [r \in Slots |-> NoExport]
  /\ exported = [started |-> 0, completed |-> {}]
  /\ users = InitialUsers
  /\ signup = [r \in Slots |-> NoSignup]

\* lines 207-272: the statistics, bias fractions, branches and verdict of the image
Detect ==
  /\ detector.image # NoImage /\ detector.out = Absent
  /\ LET st == ImageStats(detector.image)
     IN detector' = [detector EXCEPT !.out =
                       Some([stats |-> st, redBias |-> RedBias(st), blueBias |-> BlueBias(st),
                             branches |-> Branches(st),
                             thermalColorPattern |-> ThermalColorPattern(st)])]
  /\ UNCHANGED <<clock, store, admitted, pc, req, resp, responses, audit>>
  /\ UNCHANGED <<exportsFile, exporter, exported, users, signup>>

\* lines 231-272: bias fractions, branches and verdict from the statistics
DetectFeatures ==
  /\ detector.stats # Absent /\ detector.out = Absent
  /\ LET st == detector.stats[1]
     IN detector' = [detector EXCEPT !.out =
                       Some([stats |-> st, redBias |-> RedBias(st), blueBias |-> BlueBias(st),
                             branches |-> Branches(st),
                             thermalColorPattern |-> ThermalColorPattern(st)])]
  /\ UNCHANGED <<clock, store, admitted, pc, req, resp, responses, audit>>
  /\ UNCHANGED <<exportsFile, exporter, exported, users, signup>>

NextDetect == Detect \/ DetectFeatures

SpecDetect == InitDetect /\ [][NextDetect]_vars

\* ------------------------------------------------------- the export routes
\* src/app/api/reports/history/route.ts (CSV) and src/app/api/reports/pdf/route.ts
ExportTypes == {"csv", "pdf"}
VALID_REPORT_TYPES == {"comprehensive", "defects", "maintenance", "executive"}
VALID_DATE_RANGES == {"today", "last-7-days", "last-30-days", "last-90-days", "custom"}

\* request bodies: parsed JSON with the two parameters, "" for a missing one
ExportBodies ==
  [dateRange : {"", "today", "tomorrow"}, reportType : {"", "defects", "weekly"}]

\* history/route.ts lines 91-115, pdf/route.ts lines 55-79
ExportBodyValid(body) ==
  /\ body.dateRange # "" /\ body.reportType # ""
  /\ body.reportType \in VALID_REPORT_TYPES
  /\ body.dateRange \in VALID_DATE_RANGES

\* history/route.ts lines 75-269, pdf/route.ts lines 39-211: the body is parsed
\* and validated, the report generated and its record built, up to the read
\* of exports.json; reportId is a fresh UUID
ExportRequest(r) ==
  /\ exporter[r].pc = "idle"
  /\ exported.started < MaxExports
  /\ \E type \in ExportTypes, body \in ExportBodies :
       IF ExportBodyValid(body)
       THEN /\ exporter' = [exporter EXCEPT ![r] =
                              [NoExport EXCEPT !.pc = "readFile",
                                               !.record = [reportId |-> exported.started + 1,
                                                           type |-> type]]]
            /\ exported' = [exported EXCEPT !.started = @ + 1]
       ELSE /\ exporter' = [exporter EXCEPT ![r] = [NoExport EXCEPT !.pc = "done",
                                                                     !.status = 400]]
            /\ UNCHANGED exported
  /\ UNCHANGED <<clock, store, admitted, pc, req, resp, responses, audit>>
  /\ UNCHANGED <<detector, exportsFile, users, signup>>

\* history/route.ts lines 266-278, pdf/route.ts lines 208-220: the file is read
\* and parsed, an unreadable or unparseable file counts as no history; the
\* record is pushed on the local array
ExportRead(r) ==
  /\ exporter[r].pc = "readFile"
  /\ LET exports == IF exportsFile.parseable THEN exportsFile.records ELSE <<>>
     IN exporter' = [exporter EXCEPT ![r].pc = "mkdir",
                                     ![r].exports = Append(exports, exporter[r].record)]
  /\ UNCHANGED <<clock, store, admitted, pc, req, resp, responses, audit>>
  /\ UNCHANGED <<detector, exportsFile, exported, users, signup>>

\* history/route.ts line 278, pdf/route.ts line 220: the directory exists
ExportMkdir(r) ==
  /\ exporter[r].pc = "mkdir"
  /\ exporter' = [exporter EXCEPT ![r].pc = "open"]
  /\ UNCHANGED <<clock, store, admitted, pc, req, resp, responses, audit>>
  /\ UNCHANGED <<detector, exportsFile, exported, users, signup>>

\* history/route.ts line 279, pdf/route.ts line 221: fs.writeFile opens the file
\* for writing, which truncates it
ExportOpen(r) ==
  /\ exporter[r].pc = "open"
  /\ exporter' = [exporter EXCEPT ![r].pc = "write"]
  /\ exportsFile' = [parseable |-> FALSE, records |-> <<>>]
  /\ UNCHANGED <<clock, store, admitted, pc, req, resp, responses, audit>>
  /\ UNCHANGED <<detector, exported, users, signup>>

\* history/route.ts lines 279-304, pdf/route.ts lines 221-245: fs.writeFile
\* writes the serialized local array and the report is returned
ExportWrite(r) ==
  /\ exporter[r].pc = "write"
  /\ exporter' = [exporter EXCEPT ![r].pc = "done", ![r].status = 200]
  /\ exportsFile' = [parseable |-> TRUE, records |-> exporter[r].exports]
  /\ exported' = [exported EXCEPT !.completed = @ \cup {exporter[r].record}]
  /\ UNCHANGED <<clock, store, admitted, pc, req, resp, responses, audit>>
  /\ UNCHANGED <<detector, users, signup>>

\* the invocation is over
ExportDeliver(r) ==
  /\ exporter[r].pc = "done"
  /\ exporter' = [exporter EXCEPT ![r] = NoExport]
  /\ UNCHANGED <<clock, store, admitted, pc, req, resp, responses, audit>>
  /\ UNCHANGED <<detector, exportsFile, exported, users, signup>>

ExportHandler(r) ==
  \/ ExportRequest(r)
  \/ ExportRead(r)
  \/ ExportMkdir(r)
  \/ ExportOpen(r)
  \/ ExportWrite(r)
  \/ ExportDeliver(r)

NextExport == \E r \in Slots : ExportHandler(r)

SpecExport == Init /\ [][NextExport]_vars

\* ---------------------------------------------------------------- the signup
\* src/app/api/auth/signup/route.ts and addUser of src/lib/auth.ts
Emails == {"admin@chainfly.com", "ops@chainfly.com", "qa@chainfly.com"}

\* users.find((u) => u.email === email) finds a user
ExistingUser(email) == \E i \in 1..Len(users) : users[i].email = email

\* signup/route.ts lines 4-15 and auth.ts lines 69-75: the body is parsed, the
\* fields and the email are checked, up to the await of bcrypt.hash
SignupRequest(r) ==
  /\ signup[r].pc = "idle"
  /\ Len(users) < MaxUsers
  /\ \E email \in Emails \cup {""}, passwordIsString \in BOOLEAN :
       signup' = [signup EXCEPT ![r] =
         IF email = ""
         THEN [NoSignup EXCEPT !.pc = "done", !.status = 400,
                               !.error = "Missing required fields"]
         ELSE IF ExistingUser(email)
         THEN [NoSignup EXCEPT !.pc = "done", !.email = email, !.status = 400,
                               !.error = "User already exists"]
         ELSE [NoSignup EXCEPT !.pc = "hash", !.email = email,
                               !.passwordIsString = passwordIsString]]
  /\ UNCHANGED <<clock, store, admitted, pc, req, resp, responses, audit>>
  /\ UNCHANGED <<detector, exportsFile, exporter, exported, users>>

\* auth.ts lines 75-84, signup/route.ts line 16: the hash is there, the user
\* gets the id users.length + 1 and is pushed
SignupHashed(r) ==
  /\ signup[r].pc = "hash" /\ signup[r].passwordIsString
  /\ users' = Append(users, [id |-> Len(users) + 1, email |-> signup[r].email])
  /\ signup' = [signup EXCEPT ![r].pc = "done", ![r].status = 201]
  /\ UNCHANGED <<clock, store, admitted, pc, req, resp, responses, audit>>
  /\ UNCHANGED <<detector, exportsFile, exporter, exported>>

\* auth.ts line 75, signup/route.ts lines 17-27: bcrypt.hash refuses a password
\* that is not a string
SignupHashRejects(r) ==
  /\ signup[r].pc = "hash" /\ ~signup[r].passwordIsString
  /\ signup' = [signup EXCEPT ![r].pc = "done", ![r].status = 500,
                              ![r].error = "Failed to create user"]
  /\ UNCHANGED <<clock, store, admitted, pc, req, resp, responses, audit>>
  /\ UNCHANGED <<detector, exportsFile, exporter, exported, users>>

\* the invocation is over
SignupDeliver(r) ==
  /\ signup[r].pc = "done"
  /\ signup' = [signup EXCEPT ![r] = NoSignup]
  /\ UNCHANGED <<clock, store, admitted, pc, req, resp, responses, audit>>
  /\ UNCHANGED <<detector, exportsFile, exporter, exported, users>>

SignupHandler(r) ==
  \/ SignupRequest(r)
  \/ SignupHashed(r)
  \/ SignupHashRejects(r)
  \/ SignupDeliver(r)

NextSignup == \E r \in Slots : SignupHandler(r)

SpecSignup == Init /\ [][NextSignup]_vars

\* concurrent requests of one client; their bodies carry no acceptable file
BadFiles == {f \in Files : ValidateFile(f) # ""}

ConcurrentHandler(r) ==
  \/ RateLimit(r)
  \/ Validate(r, BadFiles)
  \/ Deliver(r)

NextConc == Tick \/ \E r \in Slots : ConcurrentHandler(r)

SpecConc == Init /\ [][NextConc]_vars

\* ------------------------------------------------------------------ helpers
\* a/b = c/d for confidences that are numbers
RatEq(a, b) == a.t = "num" /\ b.t = "num" /\ a.num * b.den = b.num * a.den
\* slot r takes its next request in this step
Arrives(r) == pc[r] = "idle" /\ pc'[r] # "idle"
\* the request in slot r was answered from the assembled result (line 488)
IsFull(r) == pc[r] = "done" /\ req[r].vision = "good"

\* ------------------------------------------------------------------- claims
\* C1: for one client key, once RATE_LIMIT requests have been admitted in the
\* current window the next request in that window is answered 429 with
\* retryAfter > 0; a request arriving at or after resetTime is admitted and
\* the entry is reset to count 1 with a new window.
C1_RateLimitWindow ==
  [][\A r \in Slots : Arrives(r) =>
       LET k == req'[r].key
       IN /\ (store[k].present /\ admitted[k] >= RATE_LIMIT /\ clock < store[k].resetTime)
               => (pc'[r] = "done" /\ resp'[r].status = 429 /\ resp'[r].retryAfter > 0)
          /\ (store[k].present /\ clock >= store[k].resetTime)
               => (pc'[r] = "formData" /\ store'[k].count = 1
                   /\ store'[k].resetTime = clock + RATE_WINDOW)]_vars

\* a request is turned away with 429 after RATE_LIMIT admissions while another
\* request of the same client, admitted earlier, is still in flight
C1_Witness ==
  \E r \in Slots, q \in Slots :
     /\ r # q
     /\ pc[r] = "done" /\ resp[r].status = 429 /\ resp[r].retryAfter > 0
     /\ admitted[req[r].key] = RATE_LIMIT
     /\ pc[q] = "formData"

\* C2: a request that reached the inference stage and whose inference call
\* failed (rejected promise, missing choices, unparseable JSON, JSON null,
\* hotspots that are no array or hold a null) is answered 200 with no hotspots,
\* severity unknown, confidence 0.5 and metadata.error vision_api_error.
C2_FallbackOnFailure ==
  \A r \in Slots :
     (pc[r] = "done" /\ req[r].vision \in {"rejected", "bad"}) =>
        /\ resp[r].status = 200
        /\ resp[r].hotspots = <<>>
        /\ resp[r].severity = "unknown"
        /\ RatEq(resp[r].confidence, Num(1, 2))
        /\ resp[r].metaError = "vision_api_error"

C2_Witness ==
  \E r \in Slots : pc[r] = "done" /\ req[r].vision = "bad" /\ req[r].replyCount = 2
                   /\ resp[r].metaError = "vision_api_error"

\* C3: every request that entered the handler is eventually answered, also
\* when the inference call never returns.
C3_EveryRequestAnswered ==
  \A r \in Slots : (pc[r] \notin {"idle", "done"}) ~> (pc[r] = "done")

\* C4: on every path the audit record has been emitted exactly once when the
\* response is returned.
C4_AuditEmittedOnce ==
  \A r \in Slots : pc[r] = "done" => audit[r].emitted = 1

\* C5: under any interleaving of requests of one client no increment is lost
\* (the stored count is the number of requests admitted in the window) and no
\* more than RATE_LIMIT requests are admitted in one window.
C5_NoLostIncrement ==
  \A k \in Keys :
     /\ admitted[k] <= RATE_LIMIT
     /\ store[k].present => store[k].count = admitted[k]

\* two requests of the client are in flight at once and the window is full
C5_Witness ==
  \E k \in Keys :
     /\ admitted[k] = RATE_LIMIT
     /\ \A r \in 1..2 : pc[r] = "formData" /\ req[r].key = k

\* C6: the result holds at most HOTSPOT_CAP hotspots; when the service returned
\* more, the result holds exactly the first HOTSPOT_CAP of them, in order.
C6_HotspotCap ==
  \A r \in Slots :
     /\ Len(resp[r].hotspots) <= HOTSPOT_CAP
     /\ IsFull(r) =>
          /\ Len(resp[r].hotspots) =
               (IF req[r].replyCount > HOTSPOT_CAP THEN HOTSPOT_CAP ELSE req[r].replyCount)
          /\ \A i \in 1..Len(resp[r].hotspots) : resp[r].hotspots[i] = MapHotspot(Item(i))

C6_Witness ==
  \E r \in Slots : IsFull(r) /\ req[r].replyCount > HOTSPOT_CAP
                   /\ Len(resp[r].hotspots) = HOTSPOT_CAP
                   /\ resp[r].hotspots[HOTSPOT_CAP].x = HOTSPOT_CAP

\* C7: in every 200 response the confidence is a number within [0, 1].
C7_ConfidenceInUnitInterval ==
  \A r \in Slots :
     resp[r].status = 200 =>
        /\ resp[r].confidence.t = "num"
        /\ 0 <= resp[r].confidence.num
        /\ resp[r].confidence.num <= resp[r].confidence.den

\* C8: a service confidence c > 1 is returned as c / 100, a confidence
\* 0 < c <= 1 is returned as it is; either replaces the base value 0.85.
C8_ConfidenceNormalization ==
  \A r \in Slots :
     IsFull(r) =>
       LET c == req[r].replyConfidence
       IN c.t = "num" =>
            /\ c.num > c.den => RatEq(resp[r].confidence, Num(c.num, 100 * c.den))
            /\ (0 < c.num /\ c.num <= c.den) => RatEq(resp[r].confidence, c)
            /\ RatEq(c, Num(85, 1)) => RatEq(resp[r].confidence, Num(85, 100))
            /\ RatEq(c, Num(4, 10)) => RatEq(resp[r].confidence, Num(4, 10))

C8_Witness ==
  \E r \in Slots : IsFull(r) /\ RatEq(req[r].replyConfidence, Num(60, 1))
                   /\ RatEq(resp[r].confidence, Num(6, 10))
                   /\ ~RatEq(resp[r].confidence, Num(85, 100))

\* C9: a request with demoMode = true that reaches the classification is
\* classified thermal and goes on to the inference call, whatever its pixels
\* and imageType; it never gets the non-thermal short-circuit response.
C9_DemoOverride ==
  \A r \in Slots :
     /\ (req[r].demoMode /\ req[r].classified) =>
          (req[r].isThermalImage /\ pc[r] = "vision" /\ req[r].visionCalls = 1)
     /\ req[r].demoMode => resp[r].message # MSG_NOT_THERMAL

C9_Witness ==
  \E r \in Slots : /\ req[r].demoMode /\ req[r].imageType = "visual"
                   /\ req[r].classified /\ ~req[r].thermalColorPattern
                   /\ pc[r] = "vision"

\* C10: a request with imageType = visual is classified thermal only when
\* demoMode is set; without demoMode it is non-thermal whatever the heuristic
\* says and gets the short-circuit result (no hotspots, severity none,
\* confidence 0.95).
C10_VisualOverride ==
  \A r \in Slots :
     (req[r].imageType = "visual" /\ req[r].classified) =>
        /\ req[r].isThermalImage => req[r].demoMode
        /\ ~req[r].demoMode =>
             /\ ~req[r].isThermalImage
             /\ pc[r] = "done" /\ resp[r].status = 200
             /\ resp[r].hotspots = <<>> /\ resp[r].severity = "none"
             /\ RatEq(resp[r].confidence, Num(95, 100))
             /\ resp[r].message = MSG_NOT_THERMAL
             /\ req[r].visionCalls = 0

C10_Witness ==
  \E r \in Slots : /\ req[r].imageType = "visual" /\ ~req[r].demoMode
                   /\ req[r].classified /\ req[r].thermalColorPattern
                   /\ resp[r].message = MSG_NOT_THERMAL

\* the file of the request in slot r, once the form has been parsed
HasFile(r) == req[r].file # Absent
FileOf(r) == req[r].file[1]
\* the kind of validation failure the audit record of slot r tells
FailureKind(r) ==
  CASE audit[r].error = "Invalid file upload" -> "missing"
    [] audit[r].error = "File too large" -> "size"
    [] audit[r].error = "Invalid file format" -> "format"
    [] audit[r].error = "Invalid image file" /\ audit[r].detail \in
         {"Invalid image dimensions", "Image dimensions exceed maximum allowed size of 8192px"}
         -> "dimensions"
    [] audit[r].error = "Invalid image file" -> "corrupt"
    [] OTHER -> "none"

\* C11: a file of exactly MAX_FILE_SIZE bytes passes the size check; a file of
\* MAX_FILE_SIZE + 1 bytes is rejected with status 400.
C11_SizeBoundary ==
  \A r \in Slots :
     (HasFile(r) /\ FileOf(r).present) =>
        /\ FileOf(r).size = MAX_FILE_SIZE => resp[r].error # MSG_SIZE
        /\ FileOf(r).size = MAX_FILE_SIZE + 1 =>
             (pc[r] = "done" /\ resp[r].status = 400 /\ resp[r].error = MSG_SIZE)

C11_Witness ==
  \E r \in Slots : HasFile(r) /\ FileOf(r).size = MAX_FILE_SIZE /\ pc[r] = "readFile"

\* C12: the checks run in the order presence, size, extension, decoded
\* dimensions; the first failing one decides the 400 response, and a request
\* answered 400 has run no later stage (no pixel sampling, no classification,
\* no inference call).
C12_ValidationOrder ==
  \A r \in Slots :
     resp[r].status = 400 =>
        /\ HasFile(r)
        /\ resp[r].error =
             (IF ~FileOf(r).present THEN MSG_NOFILE
              ELSE IF FileOf(r).size > MAX_FILE_SIZE THEN MSG_SIZE
              ELSE IF FileExtension(FileOf(r).name) \notin ALLOWED_FORMATS THEN MSG_FORMAT
              ELSE MSG_CORRUPT)
        /\ resp[r].error = MSG_CORRUPT <=> audit[r].detail # ""
        /\ pc[r] = "done"
        /\ req[r].image = NoImage /\ ~req[r].classified
        /\ req[r].visionCalls = 0 /\ req[r].vision = "none"

\* a file that is both too large and of a disallowed type is turned away for its size
C12_Witness ==
  \E r \in Slots : /\ HasFile(r) /\ FileOf(r).size > MAX_FILE_SIZE
                   /\ FileExtension(FileOf(r).name) = "gif"
                   /\ resp[r].status = 400 /\ resp[r].error = MSG_SIZE

\* C13: every kind of validation failure has a user-facing message that no
\* other kind has; a dimension failure does not read like a decode failure.
C13_DistinctMessages ==
  \A r \in Slots :
     resp[r].status = 400 =>
        /\ FailureKind(r) # "missing" => resp[r].error # MSG_NOFILE
        /\ FailureKind(r) # "size" => resp[r].error # MSG_SIZE
        /\ FailureKind(r) # "format" => resp[r].error # MSG_FORMAT
        /\ FailureKind(r) # "corrupt" => resp[r].error # MSG_CORRUPT

\* C14: a request that fails validation is answered 400 without the client's
\* rate-limit entry having been created, checked or incremented for it.
C14_ValidatorBeforeLimiter ==
  \A r \in Slots :
     (resp[r].status = 400 /\ FailureKind(r) \in {"missing", "size", "format"}) =>
        ~req[r].counted

\* C14 as amended: the limiter runs first.  Every request that is validated has
\* had the client's entry created, reset or incremented for it, also when it is
\* then answered 400; a request answered 429 is never validated.
C14_LimiterBeforeValidator ==
  \A r \in Slots :
     /\ (pc[r] # "idle" /\ resp[r].status # 429) =>
          (req[r].counted /\ store[req[r].key].present /\ store[req[r].key].count >= 1)
     /\ resp[r].status = 429 => (~HasFile(r) /\ ~req[r].counted /\ FailureKind(r) = "none")

C14_Witness ==
  \E r \in Slots : /\ resp[r].status = 400 /\ FailureKind(r) = "missing"
                   /\ req[r].counted /\ store[req[r].key].count = 2

\* C15: the inference service is called only for a request classified thermal
\* and at most once per request; the classification made before the call is
\* not changed by the service's answer; a non-thermal request gets the
\* short-circuit response with no call.
C15_SingleCallOnlyWhenThermal ==
  /\ [](\A r \in Slots :
          /\ req[r].visionCalls <= 1
          /\ req[r].visionCalls = 1 => (req[r].classified /\ req[r].isThermalImage)
          /\ pc[r] = "vision" => req[r].visionCalls = 1
          /\ req[r].vision # "none" => req[r].visionCalls = 1
          /\ resp[r].message = MSG_NOT_THERMAL =>
               (req[r].visionCalls = 0 /\ ~req[r].isThermalImage /\ req[r].vision = "none"))
  /\ [][\A r \in Slots :
          (req[r].classified /\ pc'[r] # "idle") =>
             /\ req'[r].isThermalImage = req[r].isThermalImage
             /\ req'[r].visionCalls = req[r].visionCalls]_vars

\* a call that failed was not repeated
C15_Witness ==
  \E r \in Slots : /\ pc[r] = "done" /\ req[r].vision = "rejected"
                   /\ req[r].visionCalls = 1 /\ req[r].isThermalImage

\* C16: every hotspot of a returned result has x, y and intensity within 0..100.
C16_HotspotRanges ==
  \A r \in Slots :
     resp[r].status = 200 =>
        \A i \in 1..Len(resp[r].hotspots) :
           /\ resp[r].hotspots[i].x \in 0..100
           /\ resp[r].hotspots[i].y \in 0..100
           /\ resp[r].hotspots[i].intensity \in 0..100

SEVERITIES == {"none", "low", "medium", "high", "critical", "unknown"}

\* C17: the severity of every 200 response is one of none, low, medium, high,
\* critical, unknown; it is medium when the service returned none.
C17_SeverityEnum ==
  \A r \in Slots : resp[r].status = 200 => resp[r].severity \in SEVERITIES

\* C18: for an image whose sampled pixels all have zero colour variance the
\* bias fractions are 0 and well defined, and the verdict is true through the
\* near-grayscale branch alone: the three other branches are false.
C18_ZeroVarianceSafety ==
  (detector.out # Absent /\ detector.out[1].stats.colorVariance3 = 0) =>
     LET d == detector.out[1]
     IN /\ d.redBias.num = 0 /\ d.redBias.den # 0
        /\ d.blueBias.num = 0 /\ d.blueBias.den # 0
        /\ d.stats.totalPixels > 0
        /\ ~d.branches.iron /\ ~d.branches.rainbow /\ ~d.branches.contrast
        /\ d.branches.grayscale
        /\ d.thermalColorPattern

\* a picture of several grey levels has been through the detector
C18_Witness ==
  /\ detector.out # Absent
  /\ detector.out[1].stats.colorVariance3 = 0
  /\ detector.out[1].stats.uniqueColors > 1
  /\ detector.out[1].thermalColorPattern

\* C19 (as stated): a timeout of the file read or of the inference call is
\* answered 500 with the message that asks to retry with a smaller image.
C19_TimeoutIs500 ==
  \A r \in Slots :
     (pc[r] = "done" /\ req[r].timedOut) =>
        (resp[r].status = 500 /\ resp[r].error = MSG_TIMEOUT)

\* C19 (amended): a timeout of the file read is answered 500 with the message
\* that asks to retry with a smaller image, never the generic one; a timeout of
\* the inference call is absorbed and answered 200 with the fallback result.
C19_TimeoutSurfacing ==
  \A r \in Slots :
     (pc[r] = "done" /\ req[r].timedOut) =>
        IF req[r].vision = "rejected"
        THEN resp[r] = FallbackResponse
        ELSE /\ resp[r] = ErrorResponse(MSG_TIMEOUT)
             /\ MSG_TIMEOUT # MSG_GENERIC
             /\ audit[r].error = "File processing timeout"

\* the file read of a request has timed out and the request is answered
C19_Witness ==
  \E r \in Slots :
     /\ pc[r] = "done" /\ req[r].timedOut /\ req[r].vision = "none"
     /\ resp[r].status = 500

\* C20: a 500 response carries only the status, the request id and one of the
\* two fixed messages; the internal error's text is in the audit record and
\* differs from the client message, and every internal error that is not a
\* timeout gets the same generic message.
C20_SanitizedErrors ==
  \A r \in Slots :
     (pc[r] = "done" /\ resp[r].status = 500) =>
        /\ resp[r] = ErrorResponse(resp[r].error)
        /\ resp[r].error \in {MSG_TIMEOUT, MSG_GENERIC}
        /\ audit[r].error # ""
        /\ audit[r].error # resp[r].error
        /\ (~IncludesTimeout(audit[r].error) => resp[r].error = MSG_GENERIC)

\* a request has failed on an error thrown by the image decoder
C20_Witness ==
  \E r \in Slots :
     /\ pc[r] = "done" /\ resp[r].status = 500
     /\ audit[r].error = "Input buffer contains unsupported image format"
     /\ resp[r].error = MSG_GENERIC

\* C21: the audit status is 'success' only once the full analysis result is
\* being returned with status 200; a request answered 400, 429 or 500 has the
\* status 'failure', as has every request that is still running.
C21_AuditStatus ==
  \A r \in Slots :
     /\ audit[r].status \in {"success", "failure"}
     /\ audit[r].status = "success" =>
          (IsFull(r) /\ resp[r].status = 200 /\ resp[r].hasRequestId /\ audit[r].results)
     /\ pc[r] # "done" => audit[r].status = "failure"
     /\ (pc[r] = "done" /\ resp[r].status \in {400, 429, 500}) => audit[r].status = "failure"

\* a full analysis result has been returned and audited as a success
C21_Witness ==
  \E r \in Slots :
     /\ IsFull(r) /\ resp[r].status = 200 /\ resp[r].totalHotspots > 0
     /\ audit[r].status = "success"

\* no export request is between its read and the end of its write
ExportsQuiet == \A r \in Slots : exporter[r].pc \in {"idle", "done"}

\* C22: once the export requests under way have completed, exports.json holds
\* exactly one record for every completed export, CSV or PDF.
C22_AppendOnly ==
  ExportsQuiet =>
     \A rec \in exported.completed :
        /\ exportsFile.parseable
        /\ Cardinality({i \in 1..Len(exportsFile.records) : exportsFile.records[i] = rec}) = 1

\* C28: no two users of the in-memory store have the same email, and no two
\* have the same id.
C28_UniqueUsers ==
  \A i, j \in 1..Len(users) :
     i # j => (users[i].email # users[j].email /\ users[i].id # users[j].id)

\* C23: every entry of the rate-limit store has 1 <= count <= RATE_LIMIT; a
\* client's first request creates its entry with count 1 and resetTime
\* now + RATE_WINDOW, a request at or after resetTime replaces the entry by
\* such a one, an admitted request inside the window adds exactly 1 to the
\* count and keeps resetTime, and nothing else changes the store.
C23_StoreEntries ==
  /\ [](\A k \in Keys : store[k].present =>
           (1 <= store[k].count /\ store[k].count <= RATE_LIMIT))
  /\ [][/\ store' # store => \E r \in Slots : Arrives(r)
        /\ \A r \in Slots : Arrives(r) =>
             LET k == req'[r].key
                 created == [present |-> TRUE, count |-> 1,
                             resetTime |-> clock + RATE_WINDOW]
             IN /\ ~store[k].present => store'[k] = created
                /\ (store[k].present /\ clock >= store[k].resetTime) => store'[k] = created
                /\ (store[k].present /\ clock < store[k].resetTime /\ pc'[r] = "formData")
                     => store'[k] = [store[k] EXCEPT !.count = @ + 1]
                /\ \A j \in Keys \ {k} : store'[j] = store[j]]_vars

\* the entry of a client has been replaced at the end of a window and then
\* counted up to the limit
C23_Witness ==
  \E k \in Keys :
     /\ store[k].present /\ store[k].count = RATE_LIMIT
     /\ store[k].resetTime = 2 * RATE_WINDOW

Falsy(o) == o = Absent \/ o = Some(0)
\* the integer m is Math.round of the value of v tenths
IsRound(v, m) == 10 * m - 5 <= v /\ v < 10 * m + 5

\* C25: of every hotspot the service returned, x, y, radius and intensity are
\* rounded to integers; radius is 20 and intensity 50 when the field is absent
\* or falsy, 0 included; x and y are 0 when absent; area is 1000 and the
\* description the generic text when absent.
C25_HotspotDefaults ==
  \A r \in Slots :
     IsFull(r) =>
        \A i \in 1..Len(resp[r].hotspots) :
           LET h == Item(i)
               m == resp[r].hotspots[i]
           IN /\ m.x \in Int /\ m.y \in Int /\ m.radius \in Int /\ m.intensity \in Int
              /\ IF h.x = Absent THEN m.x = 0 ELSE IsRound(h.x[1], m.x)
              /\ IF h.y = Absent THEN m.y = 0 ELSE IsRound(h.y[1], m.y)
              /\ IF Falsy(h.radius) THEN m.radius = 20 ELSE IsRound(h.radius[1], m.radius)
              /\ IF Falsy(h.intensity) THEN m.intensity = 50
                 ELSE IsRound(h.intensity[1], m.intensity)
              /\ h.area = Absent => m.area = 10 * 1000
              /\ h.area # Absent => m.area = h.area[1]
              /\ h.description = Absent => m.description = "Thermal anomaly detected"
              /\ h.description # Absent => m.description = h.description[1]

\* a result holds hotspots that came with radius 0, with intensity 0, without
\* x, without intensity and without area
C25_Witness ==
  \E r \in Slots :
     /\ IsFull(r) /\ Len(resp[r].hotspots) = HOTSPOT_CAP
     /\ Item(5).radius = Some(0) /\ resp[r].hotspots[5].radius = 20
     /\ Item(3).intensity = Some(0) /\ resp[r].hotspots[3].intensity = 50
     /\ Item(7).x = Absent /\ resp[r].hotspots[7].x = 0
     /\ Item(7).intensity = Absent /\ resp[r].hotspots[7].intensity = 50
     /\ Item(4).area = Absent /\ resp[r].hotspots[4].area = 10 * 1000
     /\ resp[r].hotspots[1].radius = 11

\* pi * radius^2 in tenths, radius an integer
CircleArea(radius) == (31416 * radius * radius) \div 1000
\* Math.round(T / 100) of a sum T given in tenths
AreaPercent(T) == (T + 500) \div 1000
\* the sum of the areas of the hotspots of the response of slot r
ReturnedArea(r) ==
  SumRange([i \in 1..Len(resp[r].hotspots) |-> resp[r].hotspots[i].area],
           1, Len(resp[r].hotspots))

\* C26: affectedArea is round(T / 100), T the sum over all hotspots of the
\* service of the area where the service gave one and of pi * radius^2 where
\* it gave none.
C26_AreaFallback ==
  \A r \in Slots :
     IsFull(r) =>
        LET n == req[r].replyCount
            T == SumRange([i \in 1..n |->
                             IF Item(i).area # Absent THEN Item(i).area[1]
                             ELSE CircleArea(MapHotspot(Item(i)).radius)], 1, n)
        IN resp[r].affectedArea = AreaPercent(T)

\* C30 (as stated): totalHotspots is the number of hotspots in the response
\* and affectedArea is computed over the hotspots in the response.
C30_TotalsOverReturned ==
  \A r \in Slots :
     IsFull(r) =>
        /\ resp[r].totalHotspots = Len(resp[r].hotspots)
        /\ resp[r].affectedArea = AreaPercent(ReturnedArea(r))

\* C30 (amended): totalHotspots is the number of hotspots the service returned
\* and affectedArea is computed over all of them, before the truncation; they
\* are the count and the area of the hotspots in the response when the service
\* returned at most HOTSPOT_CAP, and totalHotspots is larger than the count
\* when it returned more.
C30_TotalsBeforeTruncation ==
  \A r \in Slots :
     IsFull(r) =>
        LET n == req[r].replyCount
            T == SumRange([i \in 1..n |->
                             IF Item(i).area = Absent THEN 10 * 1000 ELSE Item(i).area[1]],
                          1, n)
        IN /\ resp[r].totalHotspots = n
           /\ resp[r].affectedArea = AreaPercent(T)
           /\ n <= HOTSPOT_CAP =>
                /\ resp[r].totalHotspots = Len(resp[r].hotspots)
                /\ resp[r].affectedArea = AreaPercent(ReturnedArea(r))
           /\ n > HOTSPOT_CAP => resp[r].totalHotspots > Len(resp[r].hotspots)

\* the service returned one hotspot more than the response holds
C30_Witness ==
  \E r \in Slots :
     /\ IsFull(r) /\ req[r].replyCount = HOTSPOT_CAP + 1
     /\ Len(resp[r].hotspots) = HOTSPOT_CAP
     /\ resp[r].totalHotspots = HOTSPOT_CAP + 1
     /\ resp[r].affectedArea # AreaPercent(ReturnedArea(r))

\* the features of the statistics st, as the claims name them: a bias is a
\* fraction num/den, avgColorVariance is colorVariance3 / (3 * totalPixels)
AvgVarianceAbove(st, t) == st.colorVariance3 > 3 * t * st.totalPixels
AvgVarianceBelow(st, t) == st.colorVariance3 < 3 * t * st.totalPixels
BiasAbove03(b) == 10 * b.num > 3 * b.den
FeatHighVariance(st) == AvgVarianceAbove(st, 50)
FeatModerateColors(st) == 50 < st.uniqueColors /\ st.uniqueColors < 300
FeatColorGradient(st) == st.uniqueColors > 100 /\ AvgVarianceAbove(st, 100)
FeatNearGrayscale(st) == st.uniqueColors < 50 /\ AvgVarianceBelow(st, 10)
FeatHighContrast(st) == AvgVarianceAbove(st, 150) /\ st.uniqueColors > 100

\* C24: thermalColorPattern is (thermalBias AND moderateColors) OR
\* (colorGradient AND highVariance) OR (uniqueColors < 50 AND
\* avgColorVariance < 10) OR (avgColorVariance > 150 AND uniqueColors > 100),
\* every inequality strict; the verdict is a function of the features.
C24_VerdictFormula ==
  detector.out # Absent =>
     LET d == detector.out[1]
         thermalBias == BiasAbove03(d.redBias) \/ BiasAbove03(d.blueBias)
     IN d.thermalColorPattern =
          (\/ thermalBias /\ FeatModerateColors(d.stats)
           \/ FeatColorGradient(d.stats) /\ FeatHighVariance(d.stats)
           \/ FeatNearGrayscale(d.stats)
           \/ FeatHighContrast(d.stats))

\* statistics that sit on the thresholds have been judged not thermal: 100
\* colours, an average variance of exactly 150, a red bias of exactly 0.3
C24_Witness ==
  /\ detector.out # Absent /\ detector.stats # Absent
  /\ detector.out[1].stats.uniqueColors = 100
  /\ detector.out[1].stats.colorVariance3 = 3 * 150 * GridPixels
  /\ detector.out[1].redBias = [num |-> 30, den |-> 100]
  /\ ~detector.out[1].thermalColorPattern

\* C29: colorGradient implies highVariance and the high-contrast branch implies
\* colorGradient, so thermalColorPattern is (thermalBias AND moderateColors) OR
\* colorGradient OR (uniqueColors < 50 AND avgColorVariance < 10).
C29_SubsumedBranches ==
  detector.out # Absent =>
     LET d == detector.out[1]
         thermalBias == BiasAbove03(d.redBias) \/ BiasAbove03(d.blueBias)
     IN /\ FeatColorGradient(d.stats) => FeatHighVariance(d.stats)
        /\ d.branches.contrast => FeatColorGradient(d.stats)
        /\ d.branches.rainbow = FeatColorGradient(d.stats)
        /\ d.thermalColorPattern =
             (\/ thermalBias /\ FeatModerateColors(d.stats)
              \/ FeatColorGradient(d.stats)
              \/ FeatNearGrayscale(d.stats))

\* the high-contrast branch has held, and the rainbow branch with it
C29_Witness ==
  /\ detector.out # Absent
  /\ detector.out[1].branches.contrast /\ detector.out[1].branches.rainbow
  /\ ~detector.out[1].branches.iron /\ ~detector.out[1].branches.grayscale
====
